---- MODULE Spec2Model ----
(***************************************************************************)
(* Model of src/main.py: a Telegram bot that drives EC2 through typed      *)
(* commands, inline-button callbacks and one scheduled job.                *)
(*                                                                         *)
(* Every handler is one atomic action (the dispatcher runs handlers one at *)
(* a time).  The effects of the handler that ran last are kept in `last`:  *)
(* the provider calls it made, the audit records it appended, the replies  *)
(* it sent and the order of these steps (a failed write to the audit table *)
(* is the step "audit_failed").  The variables prompts,                    *)
(* firstStepAt, open, executed and initiator are history variables: they   *)
(* record which confirmation prompts the callback handler has sent so far, *)
(* who asked for the latest one and what was done with it.                 *)
(***************************************************************************)
EXTENDS Integers, Sequences, FiniteSets, TLC

\* ------------------------------------------------------------------ bounds
MaxPrompts == 2
MaxTime == 130
TickStep == 65
MaxInstances == 2

\* ------------------------------------------------------- configuration
\* The two role lists are deployment configuration; abstract ids stand for
\* the Telegram user ids put in them.
ADMIN_USERS == {"admin1", "admin2"}
STANDARD_USERS == {"std1"}
Users == ADMIN_USERS \cup STANDARD_USERS \cup {"stranger"}
ADMIN_CHAT_ID == "admin1"

\* Expiry window of a confirmation ticket (spec section 4.3); the source has
\* no such value.
ExpiryWindow == 120

\* ------------------------------------------------------------- tokens
\* A token is an argument string described by its shape: a literal prefix
\* followed by len characters of class cls ("digits" < "hex" < "other").
Tok(p, n, c) == [prefix |-> p, len |-> n, cls |-> c]
I1 == Tok("i-", 17, "hex")
I2 == Tok("i-", 8, "digits")
IShort == Tok("i-", 7, "hex")
ILong == Tok("i-", 18, "hex")
INonHex == Tok("i-", 8, "other")
EIP1 == Tok("eipalloc-", 8, "hex")
EIPBad == Tok("eipalloc-", 7, "hex")
SG1 == Tok("sg-", 8, "hex")
SGBad == Tok("sg-", 8, "other")
P22 == Tok("", 2, "digits")
PAbc == Tok("", 3, "other")
OUT == Tok("outbound", 0, "digits")
OUTUP == Tok("OUTBOUND", 0, "digits")
INB == Tok("inbound", 0, "digits")
TagDev == Tok("dev", 0, "digits")

HexBody(t) == t.cls \in {"digits", "hex"} /\ t.len >= 8 /\ t.len <= 17
INSTANCE_RE(t) == t.prefix = "i-" /\ HexBody(t)
EIP_ALLOC_RE(t) == t.prefix = "eipalloc-" /\ HexBody(t)
SG_RE(t) == t.prefix = "sg-" /\ HexBody(t)
\* int(port): succeeds on a non-empty string of decimal digits
IntOk(t) == t.prefix = "" /\ t.cls = "digits" /\ t.len >= 1
\* str.lower() of a token
Lower(t) == IF t.prefix = "OUTBOUND" THEN [t EXCEPT !.prefix = "outbound"] ELSE t

\* ------------------------------------------------------------- effects
\* The effects of one handler run.
NoEffect ==
  [decision |-> "none", steps |-> <<>>, calls |-> <<>>, audit |-> <<>>,
   fallback |-> 0, replies |-> <<>>, keyboard |-> <<>>, broadcasts |-> 0,
   crashed |-> FALSE]

Decide(e, d) ==
  IF e.crashed THEN e
  ELSE [e EXCEPT !.decision = d, !.steps = Append(@, "auth")]

Reply(e, r) ==
  IF e.crashed THEN e
  ELSE [e EXCEPT !.replies = Append(@, r), !.steps = Append(@, "reply")]

\* an unhandled exception leaves the handler
Raise(e) == [e EXCEPT !.crashed = TRUE]

\* an EC2 call that is tried a second time when it fails (mutant)
Provider_retry(e, op, target, ok) ==
  IF e.crashed THEN e
  ELSE IF ok
    THEN [e EXCEPT !.calls = Append(@, [op |-> op, target |-> target, ok |-> ok]),
                   !.steps = Append(@, "call")]
    ELSE [e EXCEPT !.calls = @ \o << [op |-> op, target |-> target, ok |-> ok],
                                      [op |-> op, target |-> target, ok |-> ok] >>,
                   !.steps = @ \o <<"call", "call">>]

\* a call of the EC2 client; ok is the provider's answer
Provider(e, op, target, ok) ==
  IF e.crashed THEN e
  ELSE [e EXCEPT !.calls = Append(@, [op |-> op, target |-> target, ok |-> ok]),
                 !.steps = Append(@, "call")]

\* requests.get('https://api.ipify.org'): the lookup of the caller's address
Lookup(e, ok) ==
  IF e.crashed THEN e
  ELSE [e EXCEPT !.steps = Append(@, IF ok THEN "lookup" ELSE "lookup_failed")]

\* log_action that logs the failed write and raises it again (mutant)
log_action_raises(e, user, command, details, sinkOk) ==
  IF e.crashed THEN e
  ELSE IF sinkOk
    THEN [e EXCEPT !.audit = Append(@, [UserID |-> user, Command |-> command,
                                        Details |-> details]),
                   !.steps = Append(@, "audit")]
    ELSE Raise([e EXCEPT !.fallback = @ + 1, !.steps = Append(@, "audit_failed")])

\* log_action called twice (mutant)
log_action_twice(e, user, command, details, sinkOk) ==
  IF e.crashed THEN e
  ELSE IF sinkOk
    THEN [e EXCEPT !.audit = @ \o << [UserID |-> user, Command |-> command,
                                      Details |-> details],
                                     [UserID |-> user, Command |-> command,
                                      Details |-> details] >>,
                   !.steps = Append(@, "audit")]
    ELSE [e EXCEPT !.fallback = @ + 1, !.steps = Append(@, "audit_failed")]

log_action(e, user, command, details, sinkOk) ==
  IF e.crashed THEN e
  ELSE IF sinkOk
    THEN [e EXCEPT !.audit = Append(@, [UserID |-> user, Command |-> command,
                                        Details |-> details]),
                   !.steps = Append(@, "audit")]
    ELSE [e EXCEPT !.fallback = @ + 1, !.steps = Append(@, "audit_failed")]

\* ------------------------------------------------------------ decorators
user_authorized(u) == u \in ADMIN_USERS \/ u \in STANDARD_USERS

\* admin_only that lets standard users through (mutant)
admin_only_lax(u) == u \in ADMIN_USERS \/ u \in STANDARD_USERS

admin_only(u) == u \in ADMIN_USERS

\* The refusal of a decorator: update.message.reply_text(text).  A callback
\* update carries no update.message, so the attribute access raises.
Refuse(hasMessage, text) ==
  IF hasMessage THEN Reply(Decide(NoEffect, "denied"), text)
  ELSE Raise(Decide(NoEffect, "denied"))

Allowed == Decide(NoEffect, "allowed")

\* environment of one handler run: answers of the audit table, of EC2, of
\* api.ipify.org and of the transport, and the number of instances EC2 lists
Env == [sink : BOOLEAN, ec2 : BOOLEAN, ipify : BOOLEAN, send : BOOLEAN,
        n : 0..MaxInstances]

\* ------------------------------------------------------ command handlers
start(u, args, env) ==
  IF ~user_authorized(u) THEN Refuse(TRUE, "Unauthorized")
  ELSE Reply(log_action(Allowed, u, <<"/start">>, <<>>, env.sink), "Welcome")

help_command(u, args, env) ==
  IF ~user_authorized(u) THEN Refuse(TRUE, "Unauthorized")
  ELSE Reply(log_action(Allowed, u, <<"/help">>, <<>>, env.sink), "Help")

\* one reply per instance found, or one "none found" reply
RECURSIVE ReplyTimes(_, _, _)
ReplyTimes(e, r, k) == IF k = 0 THEN e ELSE ReplyTimes(Reply(e, r), r, k - 1)

list_instances(u, args, env) ==
  IF ~user_authorized(u) THEN Refuse(TRUE, "Unauthorized")
  ELSE
    LET tag == IF Len(args) > 0 THEN <<args[1]>> ELSE <<>>
        e1 == log_action(Allowed, u, <<"/list">>, tag, env.sink)
        e2 == Provider(e1, "describe_instances", tag, env.ec2)
    IN IF ~env.ec2 THEN Reply(e2, "Error")
       ELSE IF env.n = 0 THEN Reply(e2, "NoInstances")
       ELSE ReplyTimes(e2, "Instance", env.n)

\* describe_instance that writes the audit record before it validates (mutant)
describe_instance_logs_first(u, args, env) ==
  IF ~user_authorized(u) THEN Refuse(TRUE, "Unauthorized")
  ELSE
    LET e0 == log_action(Allowed, u, <<"/describe">>, args, env.sink)
    IN IF Len(args) # 1 \/ ~INSTANCE_RE(args[1]) THEN Reply(e0, "Usage")
       ELSE
         LET e2 == Provider(e0, "describe_instances", <<args[1]>>, env.ec2)
         IN IF env.ec2 /\ env.n > 0 THEN Reply(e2, "Details") ELSE Reply(e2, "Error")

describe_instance(u, args, env) ==
  IF ~user_authorized(u) THEN Refuse(TRUE, "Unauthorized")
  ELSE IF Len(args) # 1 \/ ~INSTANCE_RE(args[1]) THEN Reply(Allowed, "Usage")
  ELSE
    LET e1 == log_action(Allowed, u, <<"/describe">>, <<args[1]>>, env.sink)
        e2 == Provider(e1, "describe_instances", <<args[1]>>, env.ec2)
    IN IF env.ec2 /\ env.n > 0 THEN Reply(e2, "Details") ELSE Reply(e2, "Error")

cost_command(u, args, env) ==
  IF ~user_authorized(u) THEN Refuse(TRUE, "Unauthorized")
  ELSE
    LET e1 == log_action(Allowed, u, <<"/cost">>, <<>>, env.sink)
        e2 == Provider(e1, "describe_instances", <<>>, env.ec2)
    IN IF env.ec2 THEN Reply(e2, "Cost") ELSE Reply(e2, "Error")

allocate_eip(u, args, env) ==
  IF ~admin_only(u) THEN Refuse(TRUE, "AdminRequired")
  ELSE
    LET e1 == log_action(Allowed, u, <<"/allocate_eip">>, <<>>, env.sink)
        e2 == Provider(e1, "allocate_address", <<>>, env.ec2)
    IN IF env.ec2 THEN Reply(e2, "Success") ELSE Reply(e2, "Error")

associate_eip(u, args, env) ==
  IF ~admin_only(u) THEN Refuse(TRUE, "AdminRequired")
  ELSE IF Len(args) # 2 \/ ~EIP_ALLOC_RE(args[1]) \/ ~INSTANCE_RE(args[2])
    THEN Reply(Allowed, "Usage")
  ELSE
    LET e1 == log_action(Allowed, u, <<"/associate_eip">>, args, env.sink)
        e2 == Provider(e1, "associate_address", args, env.ec2)
    IN IF env.ec2 THEN Reply(e2, "Success") ELSE Reply(e2, "Error")

release_eip(u, args, env) ==
  IF ~admin_only(u) THEN Refuse(TRUE, "AdminRequired")
  ELSE IF Len(args) # 1 \/ ~EIP_ALLOC_RE(args[1]) THEN Reply(Allowed, "Usage")
  ELSE
    LET e1 == log_action(Allowed, u, <<"/release_eip">>, args, env.sink)
        e2 == Provider(e1, "release_address", args, env.ec2)
    IN IF env.ec2 THEN Reply(e2, "Success") ELSE Reply(e2, "Error")

\* direction argument of /add_ip and /remove_ip
Direction(args) ==
  IF Len(args) = 3 /\ Lower(args[3]).prefix = "outbound" THEN "outbound"
  ELSE "inbound"

\* body shared by add_ip_to_sg and remove_ip_from_sg; name is the command,
\* inOp and outOp the two EC2 operations
SgRule(u, args, env, name, inOp, outOp) ==
  IF ~admin_only(u) THEN Refuse(TRUE, "AdminRequired")
  ELSE IF ~(2 <= Len(args) /\ Len(args) <= 3) \/ ~SG_RE(args[1])
    THEN Reply(Allowed, "Usage")
  ELSE
    LET dir == Direction(args)
        e1 == log_action(Allowed, u, <<name, dir>>, <<args[1], args[2]>>, env.sink)
    IN IF ~env.ipify THEN Reply(Lookup(e1, FALSE), "Error")
       ELSE IF ~IntOk(args[2]) THEN Reply(Lookup(e1, TRUE), "Error")
       ELSE
         LET e2 == Provider(Lookup(e1, TRUE), IF dir = "inbound" THEN inOp ELSE outOp,
                            <<args[1], args[2]>>, env.ec2)
         IN IF env.ec2 THEN Reply(e2, "Success") ELSE Reply(e2, "Error")

add_ip_to_sg(u, args, env) ==
  SgRule(u, args, env, "/add_ip", "authorize_security_group_ingress",
         "authorize_security_group_egress")

remove_ip_from_sg(u, args, env) ==
  SgRule(u, args, env, "/remove_ip", "revoke_security_group_ingress",
         "revoke_security_group_egress")

\* ------------------------------------------------------ callback handler
\* query.data of a callback: "action:iid", or a string without a colon
Data(a, i) == [colon |-> TRUE, action |-> a, iid |-> i]
NoColon == [colon |-> FALSE, action |-> "", iid |-> Tok("", 0, "digits")]

\* a prompt whose YES button asks for the first step again (mutant)
ConfirmKeyboard_again(iid) == <<Data("terminate_confirm1", iid), Data("cancel", iid)>>

\* the buttons under the confirmation prompt (callback_data of each)
ConfirmKeyboard(iid) == <<Data("terminate_confirm2", iid), Data("cancel", iid)>>

\* a reply that carries an inline keyboard
ReplyWith(e, r, kb) ==
  IF e.crashed THEN e ELSE [Reply(e, r) EXCEPT !.keyboard = kb]

\* start, stop and reboot that ask for a confirmation first (mutant)
ExecInstance_asks(e, op, iid, ok, text) ==
  ReplyWith(e, "Prompt", ConfirmKeyboard(iid))

\* the branches start, stop and reboot: one EC2 call, then the reply
ExecInstance(e, op, iid, ok, text) ==
  LET e2 == Provider(e, op, <<iid>>, ok)
  IN IF ok THEN Reply(e2, text) ELSE Reply(e2, "Error")

\* a terminate test that lets every authorized user through (mutant)
terminate_allowed_lax(u) == user_authorized(u)

\* the test of line 398
terminate_allowed(u) == u \in ADMIN_USERS

handle_callback(u, data, env) ==
  IF ~user_authorized(u) THEN Refuse(FALSE, "Unauthorized")
  ELSE IF ~(u \in ADMIN_USERS \/ u \in STANDARD_USERS)
    THEN Reply(Decide(NoEffect, "denied"), "Unauthorized")
  ELSE IF ~data.colon THEN Raise(Allowed)
  ELSE
    LET action == data.action
        iid == data.iid
        e1 == log_action(Allowed, u, <<"callback", action>>, <<iid>>, env.sink)
    IN CASE action = "start" ->
              ExecInstance(e1, "start_instances", iid, env.ec2, "Started")
         [] action = "stop" ->
              ExecInstance(e1, "stop_instances", iid, env.ec2, "Stopped")
         [] action = "reboot" ->
              ExecInstance(e1, "reboot_instances", iid, env.ec2, "Rebooted")
         [] action = "cancel" -> Reply(e1, "Revert")
         [] action \in {"terminate_confirm1", "terminate_confirm2"} ->
              IF ~terminate_allowed(u)
                THEN Reply(Decide(e1, "denied"), "AdminRequired")
              ELSE IF action = "terminate_confirm1"
                THEN ReplyWith(Decide(e1, "allowed"), "Prompt", ConfirmKeyboard(iid))
              ELSE LET e2 == Provider(Decide(e1, "allowed"), "terminate_instances",
                                      <<iid>>, env.ec2)
                   IN IF env.ec2 THEN Reply(e2, "Terminating")
                      ELSE Reply(e2, "Error")
         [] OTHER -> e1

\* ------------------------------------------------------- scheduled job
\* daily_report that writes no audit record when the run fails (mutant)
daily_report_silent_failure(env) ==
  LET e1 == Provider(NoEffect, "describe_instances", <<>>, env.ec2)
  IN IF env.ec2 /\ env.send
       THEN log_action([e1 EXCEPT !.broadcasts = @ + 1, !.steps = Append(@, "broadcast")],
                       "SYSTEM", <<"daily_report">>, <<Tok("sent", 0, "digits")>>, env.sink)
       ELSE e1

daily_report(env) ==
  LET e1 == Provider(NoEffect, "describe_instances", <<>>, env.ec2)
  IN IF env.ec2 /\ env.send
       THEN log_action([e1 EXCEPT !.broadcasts = @ + 1, !.steps = Append(@, "broadcast")],
                       "SYSTEM", <<"daily_report">>, <<Tok("sent", 0, "digits")>>, env.sink)
       ELSE log_action(e1, "SYSTEM", <<"daily_report">>, <<Tok("failed", 0, "digits")>>,
                       env.sink)

\* ---------------------------------------------------------------- state
VARIABLES last, prompts, firstStepAt, open, executed, initiator, now

vars == <<last, prompts, firstStepAt, open, executed, initiator, now>>

\* instances for which the model delivers terminate and cancel callbacks
TermIds == {I1}
\* instances for which the model delivers start callbacks
StartIds == {I1, I2, IShort}

NoPre == [prompts |-> 0, firstStepAt |-> -1, open |-> FALSE, executed |-> FALSE,
          initiator |-> "", time |-> 0]
\* what the handler has done so far for instance i, and the time of the event
Pre(i) ==
  IF i \in TermIds
    THEN [prompts |-> prompts[i], firstStepAt |-> firstStepAt[i], open |-> open[i],
          executed |-> executed[i], initiator |-> initiator[i], time |-> now]
    ELSE NoPre

Init ==
  /\ last = [kind |-> "none", user |-> "", verb |-> "", args |-> <<>>,
             data |-> NoColon, prompt |-> 0, pre |-> NoPre,
             eff |-> NoEffect]
  /\ prompts = [i \in TermIds |-> 0]
  /\ firstStepAt = [i \in TermIds |-> -1]
  /\ open = [i \in TermIds |-> FALSE]
  /\ executed = [i \in TermIds |-> FALSE]
  /\ initiator = [i \in TermIds |-> ""]
  /\ now = 0

\* ---------------------------------------------------------------- inputs
CmdInputs ==
  { [verb |-> "start", args |-> <<>>], [verb |-> "help", args |-> <<>>],
    [verb |-> "list", args |-> <<>>], [verb |-> "list", args |-> <<TagDev>>],
    [verb |-> "describe", args |-> <<I1>>], [verb |-> "describe", args |-> <<I2>>],
    [verb |-> "describe", args |-> <<IShort>>], [verb |-> "describe", args |-> <<ILong>>],
    [verb |-> "describe", args |-> <<>>],
    [verb |-> "cost", args |-> <<>>], [verb |-> "allocate_eip", args |-> <<>>],
    [verb |-> "associate_eip", args |-> <<EIP1, I1>>],
    [verb |-> "associate_eip", args |-> <<EIP1, INonHex>>],
    [verb |-> "associate_eip", args |-> <<EIP1>>],
    [verb |-> "release_eip", args |-> <<EIP1>>],
    [verb |-> "release_eip", args |-> <<EIPBad>>],
    [verb |-> "add_ip", args |-> <<SG1, P22>>],
    [verb |-> "add_ip", args |-> <<SG1, PAbc>>],
    [verb |-> "add_ip", args |-> <<SG1, P22, OUTUP>>],
    [verb |-> "add_ip", args |-> <<SGBad, P22>>],
    [verb |-> "remove_ip", args |-> <<SG1, P22>>],
    [verb |-> "remove_ip", args |-> <<SG1, P22, OUT>>],
    [verb |-> "remove_ip", args |-> <<SG1, P22, INB>>],
    [verb |-> "remove_ip", args |-> <<SG1>>] }

\* users that type commands; callbacks come from every user
CmdUsers == {"admin1", "std1", "stranger"}

\* the answers of the environment to a handler of the given kind
EnvOf(kind) ==
  { env \in Env : env.send /\ (kind = "callback" => env.ipify /\ env.n = 0) }

\* the CommandHandler table of main()
RunCommand(verb, u, args, env) ==
  CASE verb = "start" -> start(u, args, env)
    [] verb = "help" -> help_command(u, args, env)
    [] verb = "list" -> list_instances(u, args, env)
    [] verb = "describe" -> describe_instance(u, args, env)
    [] verb = "cost" -> cost_command(u, args, env)
    [] verb = "allocate_eip" -> allocate_eip(u, args, env)
    [] verb = "associate_eip" -> associate_eip(u, args, env)
    [] verb = "release_eip" -> release_eip(u, args, env)
    [] verb = "add_ip" -> add_ip_to_sg(u, args, env)
    [] verb = "remove_ip" -> remove_ip_from_sg(u, args, env)

CbData ==
  { Data("start", i) : i \in StartIds }
    \cup { Data("stop", I1), Data("reboot", I1), Data("bogus", I1), NoColon }
    \cup { Data(a, i) : a \in {"cancel", "terminate_confirm1", "terminate_confirm2"},
                        i \in TermIds }

HasReply(e, r) == \E k \in 1..Len(e.replies) : e.replies[k] = r
HasCall(e, op) == \E k \in 1..Len(e.calls) : e.calls[k].op = op

\* every run of a command handler: the requester, the command and what the
\* handler does under some answers of its environment
CmdRuns ==
  { [user |-> u, verb |-> c.verb, args |-> c.args,
     eff |-> RunCommand(c.verb, u, c.args, env)] :
      u \in CmdUsers, c \in CmdInputs, env \in EnvOf("any") }

\* every run of handle_callback
CbRuns ==
  { [user |-> u, data |-> d, eff |-> handle_callback(u, d, env)] :
      u \in Users, d \in CbData, env \in EnvOf("callback") }

\* every run of daily_report
JobRuns == { daily_report(env) : env \in { e \in Env : e.ipify /\ e.n = 0 } }

\* --------------------------------------------------------------- actions
\* a typed command is dispatched to its handler
Command ==
  \E r \in CmdRuns :
    /\ last' = [kind |-> "command", user |-> r.user, verb |-> r.verb,
                args |-> r.args, data |-> NoColon, prompt |-> 0, pre |-> NoPre,
                eff |-> r.eff]
    /\ UNCHANGED <<prompts, firstStepAt, open, executed, initiator, now>>

\* a button press is dispatched to handle_callback.  p is the prompt whose
\* button was pressed: the p-th prompt sent for the instance, 0 for a button
\* of no prompt sent by this process.
Callback ==
  \E r \in CbRuns :
    \E p \in 0..(IF r.data.colon /\ r.data.iid \in TermIds
                    /\ r.data.action \in {"cancel", "terminate_confirm2"}
                 THEN prompts[r.data.iid] ELSE 0) :
      LET eff == r.eff
          i == r.data.iid
          sent == HasReply(eff, "Prompt")
          term == HasCall(eff, "terminate_instances")
          used == term \/ HasReply(eff, "Revert")
      IN /\ i \in TermIds /\ sent => prompts[i] < MaxPrompts
         /\ last' = [kind |-> "callback", user |-> r.user, verb |-> r.data.action,
                     args |-> <<>>, data |-> r.data, prompt |-> p,
                     pre |-> Pre(i), eff |-> eff]
         /\ IF i \in TermIds /\ sent
              THEN /\ prompts' = [prompts EXCEPT ![i] = @ + 1]
                   /\ firstStepAt' = [firstStepAt EXCEPT ![i] = now]
                   /\ open' = [open EXCEPT ![i] = TRUE]
                   /\ executed' = [executed EXCEPT ![i] = FALSE]
                   /\ initiator' = [initiator EXCEPT ![i] = r.user]
              ELSE /\ UNCHANGED <<prompts, firstStepAt, initiator>>
                   /\ open' = IF i \in TermIds /\ used
                                THEN [open EXCEPT ![i] = FALSE] ELSE open
                   /\ executed' = IF i \in TermIds /\ term
                                    THEN [executed EXCEPT ![i] = TRUE] ELSE executed
         /\ UNCHANGED now

\* the job queue runs daily_report
DailyReport ==
  \E e \in JobRuns :
    /\ last' = [kind |-> "job", user |-> "SYSTEM", verb |-> "daily_report",
                args |-> <<>>, data |-> NoColon, prompt |-> 0, pre |-> NoPre,
                eff |-> e]
    /\ UNCHANGED <<prompts, firstStepAt, open, executed, initiator, now>>

\* time passes
Tick ==
  /\ now + TickStep <= MaxTime
  /\ now' = now + TickStep
  /\ UNCHANGED <<last, prompts, firstStepAt, open, executed, initiator>>

Next == Command \/ Callback \/ DailyReport \/ Tick

Spec == Init /\ [][Next]_vars

\* =================================================================== claims
\* roles and the capability table of the specification
Role(u) == IF u \in ADMIN_USERS THEN "admin"
           ELSE IF u \in STANDARD_USERS THEN "standard" ELSE "none"
Rank(r) == CASE r = "none" -> 0 [] r = "standard" -> 1 [] r = "admin" -> 2

\* the action kind an inbound event asks for ("other" when it is none of the
\* kinds of the capability table)
ActionKind(l) ==
  IF l.kind = "command" THEN
    CASE l.verb = "list" -> "list"
      [] l.verb = "describe" -> "describe"
      [] l.verb = "cost" -> "estimate_cost"
      [] l.verb = "allocate_eip" -> "eip_allocate"
      [] l.verb = "associate_eip" -> "eip_associate"
      [] l.verb = "release_eip" -> "eip_release"
      [] l.verb = "add_ip" -> "sg_rule_add"
      [] l.verb = "remove_ip" -> "sg_rule_remove"
      [] OTHER -> "other"
  ELSE IF l.kind = "callback" /\ l.data.colon THEN
    CASE l.verb = "start" -> "instance_start"
      [] l.verb = "stop" -> "instance_stop"
      [] l.verb = "reboot" -> "instance_reboot"
      [] l.verb \in {"terminate_confirm1", "terminate_confirm2"} -> "instance_terminate"
      [] OTHER -> "other"
  ELSE "other"

StandardKinds == {"list", "describe", "estimate_cost", "instance_start",
                  "instance_stop", "instance_reboot"}
AdminKinds == {"instance_terminate", "eip_allocate", "eip_associate", "eip_release",
               "sg_rule_add", "sg_rule_remove"}
MinRole(k) == IF k \in AdminKinds THEN "admin" ELSE "standard"

\* the provider operations that change state
MutatingOps == {"start_instances", "stop_instances", "reboot_instances",
                "terminate_instances", "allocate_address", "associate_address",
                "release_address", "authorize_security_group_ingress",
                "authorize_security_group_egress", "revoke_security_group_ingress",
                "revoke_security_group_egress"}
Mutates(e) == \E k \in 1..Len(e.calls) : e.calls[k].op \in MutatingOps

IsConfirm2 == last.kind = "callback" /\ last.data.colon
              /\ last.verb = "terminate_confirm2"
Terminated == HasCall(last.eff, "terminate_instances")

\* C1: a requester whose role is below the minimum role of the action is
\* denied, and the handler makes no provider call.
C1_BelowMinRoleDenied ==
  (ActionKind(last) \in StandardKinds \cup AdminKinds
     /\ Rank(Role(last.user)) < Rank(MinRole(ActionKind(last))))
  => (last.eff.decision = "denied" /\ last.eff.calls = <<>>)

\* a standard user pressed the second terminate button and was refused
C1_Witness ==
  /\ IsConfirm2 /\ last.user \in STANDARD_USERS
  /\ last.eff.decision = "denied" /\ last.eff.calls = <<>>

\* C2: after a single first step, a second-step confirmation delivered again
\* once terminate has been called for it makes no provider call (at most one
\* terminate per first step).
C2_AtMostOncePerTicket ==
  (IsConfirm2 /\ last.pre.prompts = 1 /\ last.pre.executed) => ~Terminated

\* C3: terminate is called for an instance only if a first step for it was
\* processed earlier and is still pending.
C3_NeverIssuedNotFound ==
  (IsConfirm2 /\ Terminated) => (last.pre.prompts > 0 /\ last.pre.open)

\* C4: a second step that arrives later than the expiry window after the
\* first step makes no provider call.
C4_ExpiredNoCall ==
  (IsConfirm2 /\ last.pre.firstStepAt >= 0
     /\ last.pre.time - last.pre.firstStepAt > ExpiryWindow)
  => (~Terminated /\ last.eff.replies = <<"Expired">>)

\* C5: the button of a prompt that a later prompt for the same instance has
\* replaced makes no provider call.
C5_ReplacedTokenNotFound ==
  (IsConfirm2 /\ last.prompt >= 1 /\ last.prompt < last.pre.prompts)
  => ~Terminated

IsStandardTerminate ==
  /\ last.kind = "callback" /\ last.data.colon
  /\ last.verb \in {"terminate_confirm1", "terminate_confirm2"}
  /\ last.user \in STANDARD_USERS /\ last.user \notin ADMIN_USERS

\* C6 as stated: a terminate request of a standard user is refused with
\* "admin access required", appends exactly one audit record and makes no
\* provider call.
C6_Original ==
  IsStandardTerminate
  => (last.eff.replies = <<"AdminRequired">> /\ Len(last.eff.audit) = 1
        /\ last.eff.calls = <<>>)

\* C6 amended: a terminate request of a standard user is refused with
\* "admin access required" and makes no provider call; log_action runs once,
\* which appends one audit record when the audit table accepts it and none
\* (one line in the process log) when it does not.
C6_StandardTerminateDenied ==
  IsStandardTerminate
  => (/\ last.eff.replies = <<"AdminRequired">>
      /\ last.eff.calls = <<>>
      /\ last.eff.decision = "denied"
      /\ Len(last.eff.audit) + last.eff.fallback = 1)

C6_Witness ==
  /\ IsStandardTerminate /\ last.verb = "terminate_confirm2"
  /\ Len(last.eff.audit) = 1 /\ last.eff.replies = <<"AdminRequired">>

\* C7 as stated: a handler run that makes a state-changing provider call
\* appends exactly one audit record.
C7_Original ==
  (last.kind \in {"command", "callback"} /\ Mutates(last.eff))
  => Len(last.eff.audit) = 1

\* C7 amended: a handler run that makes a state-changing provider call runs
\* log_action exactly once, whether the provider call succeeds or fails: one
\* audit record when the audit table accepts it, none (and one line in the
\* process log) when it does not; never two records.
C7_OneAuditPerExecution ==
  (last.kind \in {"command", "callback"} /\ Mutates(last.eff))
  => (/\ Len(last.eff.audit) + last.eff.fallback = 1
      /\ Len(last.eff.audit) <= 1)

\* a provider call failed and its run is in the audit table once
C7_Witness ==
  /\ last.kind = "command" /\ Mutates(last.eff)
  /\ ~last.eff.calls[1].ok /\ Len(last.eff.audit) = 1

\* C8: every request refused by authorization appends exactly one audit
\* record.
C8_DeniedAudited ==
  (last.kind \in {"command", "callback"} /\ last.eff.decision = "denied")
  => Len(last.eff.audit) = 1

\* the request carries an id that does not match its pattern
MalformedId(l) ==
  \/ l.kind = "command" /\ l.verb = "describe"
       /\ Len(l.args) = 1 /\ ~INSTANCE_RE(l.args[1])
  \/ l.kind = "command" /\ l.verb = "associate_eip" /\ Len(l.args) = 2
       /\ (~EIP_ALLOC_RE(l.args[1]) \/ ~INSTANCE_RE(l.args[2]))
  \/ l.kind = "command" /\ l.verb = "release_eip"
       /\ Len(l.args) = 1 /\ ~EIP_ALLOC_RE(l.args[1])
  \/ l.kind = "command" /\ l.verb \in {"add_ip", "remove_ip"}
       /\ Len(l.args) \in {2, 3} /\ ~SG_RE(l.args[1])
  \/ l.kind = "callback" /\ l.data.colon
       /\ l.verb \in {"start", "stop", "reboot", "terminate_confirm1",
                      "terminate_confirm2"}
       /\ ~INSTANCE_RE(l.data.iid)

\* the authorized, well-formed requests, with the number of provider calls
\* their handler is to make: one for an action, none for the two commands
\* without a provider action, for a terminate prompt and for a cancel
Authorized(l) == Rank(Role(l.user)) >= Rank(MinRole(ActionKind(l)))
WellFormed(l) ==
  /\ ~MalformedId(l)
  /\ l.kind = "command" =>
       CASE l.verb = "describe" -> Len(l.args) = 1
         [] l.verb = "associate_eip" -> Len(l.args) = 2
         [] l.verb = "release_eip" -> Len(l.args) = 1
         [] l.verb \in {"add_ip", "remove_ip"} -> Len(l.args) \in {2, 3}
         [] OTHER -> TRUE
  /\ l.kind = "callback" =>
       l.data.colon /\ l.verb # "bogus"
Executes(l) ==
  \/ l.kind = "command"
       /\ l.verb \in {"list", "describe", "cost", "allocate_eip", "associate_eip",
                      "release_eip"}
  \/ l.kind = "command" /\ l.verb \in {"add_ip", "remove_ip"}
       /\ IntOk(l.args[2])
       /\ ~(\E k \in 1..Len(l.eff.steps) : l.eff.steps[k] = "lookup_failed")
  \/ l.kind = "callback"
       /\ l.verb \in {"start", "stop", "reboot", "terminate_confirm2"}

\* C9: when the audit table refuses the record, the handler of an authorized
\* request still makes its provider call exactly once (none for a prompt or a
\* cancel) and still replies.
C9_AuditFailureSwallowed ==
  (/\ last.kind \in {"command", "callback"}
   /\ last.eff.fallback > 0
   /\ Authorized(last) /\ WellFormed(last))
  => (/\ ~last.eff.crashed
      /\ Len(last.eff.replies) >= 1
      /\ Len(last.eff.calls) = (IF Executes(last) THEN 1 ELSE 0)
      /\ Len(last.eff.audit) = 0)

\* the audit table was down and terminate was still called
C9_Witness ==
  /\ IsConfirm2 /\ last.eff.fallback = 1 /\ Terminated
  /\ Len(last.eff.replies) = 1

\* C10: a request with a malformed id gets the usage reply before any
\* authorization decision and never reaches the provider.
C10_MalformedIdRejected ==
  MalformedId(last)
  => (/\ last.eff.replies = <<"Usage">>
      /\ last.eff.decision = "none"
      /\ last.eff.calls = <<>>)

\* ------------------------------------------------------------ C11 .. C20
IsConfirm1 == last.kind = "callback" /\ last.data.colon
              /\ last.verb = "terminate_confirm1"
Ghost == <<prompts, firstStepAt, open, executed, initiator>>

\* C11: for an admin, the first step of terminate makes no provider call and
\* replies with one prompt whose YES button carries terminate_confirm2 and
\* the same instance id; the press of such a button by an admin calls
\* terminate exactly once, for that instance id.
C11_TwoStepProtocol ==
  /\ (IsConfirm1 /\ last.user \in ADMIN_USERS)
       => (/\ last.eff.calls = <<>>
           /\ last.eff.replies = <<"Prompt">>
           /\ Len(last.eff.keyboard) >= 1
           /\ last.eff.keyboard[1] = Data("terminate_confirm2", last.data.iid))
  /\ (IsConfirm2 /\ last.user \in ADMIN_USERS /\ last.prompt >= 1)
       => (/\ Len(last.eff.calls) = 1
           /\ last.eff.calls[1].op = "terminate_instances"
           /\ last.eff.calls[1].target = <<last.data.iid>>)

\* the YES button of the pending prompt was pressed and terminate was called
C11_Witness ==
  /\ IsConfirm2 /\ last.user \in ADMIN_USERS
  /\ last.prompt = last.pre.prompts /\ last.prompt >= 1 /\ last.pre.open
  /\ Len(last.eff.calls) = 1 /\ last.eff.calls[1].target = <<I1>>

\* the authorized, well-formed requests for an action without confirmation
\* whose handler gets as far as the provider
NonDestructive(l) ==
  /\ Authorized(l) /\ WellFormed(l) /\ Executes(l)
  /\ ActionKind(l) \in {"instance_start", "instance_stop", "instance_reboot",
                        "eip_allocate", "eip_associate", "eip_release",
                        "sg_rule_add", "sg_rule_remove"}

\* C12: an authorized request for start, stop, reboot, an EIP action or a
\* security-group action makes its provider call in that one step, sends no
\* confirmation prompt and leaves every pending terminate confirmation as it
\* was.
C12_NonDestructiveBypass ==
  [][NonDestructive(last')
       => (/\ Len(last'.eff.calls) = 1 /\ Mutates(last'.eff)
           /\ last'.eff.keyboard = <<>>
           /\ ~HasReply(last'.eff, "Prompt")
           /\ UNCHANGED Ghost)]_vars

\* an instance was started while its terminate confirmation was pending, and
\* the confirmation still is
C12_Witness ==
  /\ last.kind = "callback" /\ last.verb = "start" /\ last.data.iid = I1
  /\ last.pre.open /\ open[I1] /\ prompts[I1] = last.pre.prompts
  /\ Len(last.eff.calls) = 1

\* the outcome an audit record carries ("none" when it has no such field)
Outcome(rec) == IF "Outcome" \in DOMAIN rec THEN rec.Outcome ELSE "none"

\* C13: the audit record of an execution attempt says succeeded when the
\* provider call returned and failed when it raised.
C13_AuditCarriesOutcome ==
  (last.kind \in {"command", "callback"} /\ Mutates(last.eff)
     /\ Len(last.eff.audit) >= 1)
  => Outcome(last.eff.audit[Len(last.eff.audit)])
       = (IF last.eff.calls[1].ok THEN "succeeded" ELSE "failed")

\* C14: the handler of one inbound event makes at most one state-changing
\* provider call; a provider call that fails is its last one and the handler
\* ends with the error reply.
C14_NoRetry ==
  last.kind \in {"command", "callback"}
  => (/\ Cardinality({k \in 1..Len(last.eff.calls) :
                        last.eff.calls[k].op \in MutatingOps}) <= 1
      /\ \A k \in 1..Len(last.eff.calls) :
           ~last.eff.calls[k].ok
             => (/\ k = Len(last.eff.calls)
                 /\ Len(last.eff.calls) = 1
                 /\ last.eff.replies = <<"Error">>
                 /\ last.eff.steps[Len(last.eff.steps)] = "reply"))

\* terminate failed at the provider and was not tried again
C14_Witness ==
  /\ IsConfirm2 /\ Len(last.eff.calls) = 1 /\ ~last.eff.calls[1].ok
  /\ last.eff.replies = <<"Error">>

\* C15: a cancel makes no provider call, and after it a second step for the
\* instance calls terminate only if a new first step came in between.
C15_CancelConsumes ==
  /\ (last.kind = "callback" /\ last.verb = "cancel") => last.eff.calls = <<>>
  /\ (IsConfirm2 /\ last.pre.prompts > 0 /\ ~last.pre.open /\ ~last.pre.executed)
       => ~Terminated

\* C16: the second step of an admin calls terminate whoever asked for the
\* first step; the second step of a requester who is not an admin never does.
C16_AnyAdminConfirms ==
  /\ (IsConfirm2 /\ last.user \in ADMIN_USERS /\ last.pre.open
        /\ last.pre.initiator \in ADMIN_USERS)
       => (Terminated /\ last.eff.calls[1].target = <<last.data.iid>>)
  /\ (IsConfirm2 /\ last.user \notin ADMIN_USERS) => ~Terminated

\* another admin than the one who asked completed the confirmation
C16_Witness ==
  /\ IsConfirm2 /\ last.pre.open /\ last.pre.initiator \in ADMIN_USERS
  /\ last.user \in ADMIN_USERS /\ last.user # last.pre.initiator
  /\ Terminated

\* positions of a step in the run of a handler
Pos(e, st) == {k \in 1..Len(e.steps) : e.steps[k] = st}
Before(e, a, b) == \A i \in Pos(e, a), j \in Pos(e, b) : i < j

\* C17: in one run the authorization decision comes first, then the provider
\* call, then the audit append, then the reply.
C17_StepOrder ==
  last.kind \in {"command", "callback"}
  => (/\ Before(last.eff, "auth", "audit")
      /\ Before(last.eff, "auth", "call")
      /\ Before(last.eff, "call", "audit")
      /\ Before(last.eff, "audit", "reply")
      /\ Before(last.eff, "call", "reply"))

\* C18: every typed command and every callback ends with exactly one reply.
C18_ExactlyOneReply ==
  last.kind \in {"command", "callback"} => Len(last.eff.replies) = 1

\* C19 as stated: a run of the daily report queries read-only, broadcasts at
\* most once, appends exactly one audit record of requester SYSTEM and leaves
\* the pending confirmations alone.
C19_Original ==
  [][last'.kind = "job"
       => (/\ ~Mutates(last'.eff)
           /\ last'.eff.broadcasts <= 1
           /\ Len(last'.eff.audit) = 1
           /\ \A k \in 1..Len(last'.eff.audit) : last'.eff.audit[k].UserID = "SYSTEM"
           /\ UNCHANGED Ghost)]_vars

\* C19 amended: a run of the daily report makes one read-only provider query
\* and no state-changing call, broadcasts at most once, runs log_action
\* exactly once with requester SYSTEM whether the run succeeds or fails (one
\* audit record when the audit table accepts it, none when it does not) and
\* leaves the pending confirmations alone.
C19_DailyReportFrame ==
  [][last'.kind = "job"
       => (/\ ~Mutates(last'.eff)
           /\ Len(last'.eff.calls) = 1
           /\ last'.eff.calls[1].op = "describe_instances"
           /\ last'.eff.broadcasts <= 1
           /\ Len(last'.eff.audit) + last'.eff.fallback = 1
           /\ \A k \in 1..Len(last'.eff.audit) : last'.eff.audit[k].UserID = "SYSTEM"
           /\ UNCHANGED Ghost)]_vars

\* a run of the report failed while a confirmation was pending; it is in the
\* audit table once and the confirmation is still pending
C19_Witness ==
  /\ last.kind = "job" /\ ~last.eff.calls[1].ok /\ last.eff.broadcasts = 0
  /\ Len(last.eff.audit) = 1 /\ last.eff.audit[1].UserID = "SYSTEM"
  /\ open[I1]

\* the typed commands that validate their arguments
Validating == {"describe", "associate_eip", "release_eip", "add_ip", "remove_ip"}

\* C20: a typed command of an authorized requester whose arguments fail
\* validation gets the usage reply; no audit record is written and no
\* provider call is made.
C20_ValidationFailureFrame ==
  (/\ last.kind = "command" /\ last.verb \in Validating
   /\ Authorized(last) /\ ~WellFormed(last))
  => (/\ last.eff.replies = <<"Usage">>
      /\ last.eff.audit = <<>> /\ last.eff.fallback = 0
      /\ last.eff.calls = <<>>
      /\ last.eff.steps = <<"auth", "reply">>
      /\ last.eff.keyboard = <<>> /\ last.eff.broadcasts = 0)

\* /describe with a malformed id got the usage reply and nothing else
C20_Witness ==
  /\ last.kind = "command" /\ last.verb = "describe" /\ last.args = <<IShort>>
  /\ last.user \in ADMIN_USERS \cup STANDARD_USERS
  /\ last.eff.replies = <<"Usage">> /\ last.eff.audit = <<>>

====
